---------------------------- MODULE Spec2Model ----------------------------
(***************************************************************************)
(* A model of the backup utility of jkeveren/windows-files-backup.  The    *)
(* repository holds three editions of the same program:                    *)
(*   "part_000"  src/unnamed/part_000: flag deleteOldBackups, no error     *)
(*               handler, no report;                                       *)
(*   "main"      src/main.go: errorHandler with a deferred report that     *)
(*               posts to SendGrid;                                        *)
(*   "part_001"  src/unnamed/part_001: errorHandler with a deferred report *)
(*               that posts through SalesScribe and SendGrid.              *)
(* One run of the program is a walk of pc through main(); the backups      *)
(* directory outlives the run, and the program may be started again.       *)
(*                                                                         *)
(* File names, glob patterns and archive paths are sequences of one-       *)
(* character strings, so that formatting, matching and sorting are         *)
(* computed character by character as the code's library calls do.         *)
(***************************************************************************)
EXTENDS Integers, Sequences, FiniteSets, TLC

\* ------------------------------------------------------------------ bounds

\* Most sources a configuration lists.
MaxSources == 2

\* Most file-system faults injected into one run.
MaxFaults == 1

\* Most times the program is started on the same backups directory.
MaxRuns == 2

\* Most runs in a sequence of runs at increasing times.
MaxSeqRuns == 4

\* ----------------------------------------------------------------- strings

\* The characters the model's names use, in ASCII order.
Alphabet == <<"*", "-", ".", "/", "0", "1", "2", "3", "4", "5", "6", "7", "8", "9", ":", "?", "C", "T", "U", "[", "]", "_", "a", "b", "c", "d", "e", "f", "g", "i", "k", "l", "n", "o", "p", "q", "r", "s", "t", "u", "x", "y", "z">>

Digits == <<"0", "1", "2", "3", "4", "5", "6", "7", "8", "9">>

DigitSet == {Digits[i] : i \in 1..Len(Digits)}

\* The rank of a character: the order of the bytes sort.Strings compares.
Code(c) == CHOOSE i \in 1..Len(Alphabet) : Alphabet[i] = c

Min(a, b) == IF a < b THEN a ELSE b

\* a < b as Go compares strings: byte-wise, a proper prefix first.
StrLess(a, b) == \E k \in 1..(Min(Len(a), Len(b)) + 1) : /\ \A j \in 1..(k - 1) : a[j] = b[j]
                                                        /\ \/ k > Len(a) /\ k <= Len(b)
                                                           \/ k <= Len(a) /\ k <= Len(b) /\ Code(a[k]) < Code(b[k])

\* strconv-style %d of a natural number.
RECURSIVE Itoa(_)
Itoa(n) == IF n < 10 THEN <<Digits[n + 1]>> ELSE Itoa(n \div 10) \o <<Digits[(n % 10) + 1]>>

\* The set of a sequence's elements.
Range(s) == {s[i] : i \in 1..Len(s)}

\* A set of strings as the ascending sequence of its elements.
RECURSIVE SortedSeq(_)
SortedSeq(S) == IF S = {} THEN <<>> ELSE LET m == CHOOSE x \in S : \A y \in S \ {x} : StrLess(x, y) IN <<m>> \o SortedSeq(S \ {m})

\* s with x inserted before the first element that is greater than x.
RECURSIVE InsertSorted(_, _)
InsertSorted(s, x) == IF s = <<>> THEN <<x>> ELSE IF StrLess(x, Head(s)) THEN <<x>> \o s ELSE <<Head(s)>> \o InsertSorted(Tail(s), x)

\* sort.Strings: the sequence in ascending byte order.
RECURSIVE SortStrings(_)
SortStrings(s) == IF s = <<>> THEN <<>> ELSE InsertSorted(SortStrings(Tail(s)), Head(s))

\* ------------------------------------------------------------- file system

\* The directory given on the command line, made absolute; the program is
\* started from it, so relative paths resolve against it.
DstDirPath == <<<<"/">>, <<"d", "s", "t">>>>

Cwd == DstDirPath

\* The directories and the regular files under the configuration directory.
Dirs == {DstDirPath \o <<<<"p">>, <<"a">>>>, DstDirPath \o <<<<"p">>, <<"a">>, <<"s", "u", "b">>>>, DstDirPath \o <<<<"q">>, <<"a">>>>}

Files == {DstDirPath \o <<<<"p">>, <<"a">>, <<"x", ".", "t", "x", "t">>>>, DstDirPath \o <<<<"p">>, <<"a">>, <<"s", "k", "i", "p", ".", "b", "a", "d">>>>, DstDirPath \o <<<<"p">>, <<"a">>, <<"s", "u", "b">>, <<"y", ".", "t", "x", "t">>>>, DstDirPath \o <<<<"q">>, <<"a">>, <<"x", ".", "t", "x", "t">>>>, DstDirPath \o <<<<"f", ".", "t", "x", "t">>>>}

\* A path is absolute when it starts at the root.
IsAbs(p) == Len(p) > 0 /\ p[1] = <<"/">>

\* The file the operating system finds for a path.
Resolve(p) == IF IsAbs(p) THEN p ELSE Cwd \o p

\* filepath.Base: the last element of a path.
Base(p) == IF Len(p) = 0 THEN <<".">> ELSE p[Len(p)]

\* The names in a directory.
Children(d) == {f[Len(f)] : f \in {g \in Dirs \cup Files : Len(g) = Len(d) + 1 /\ SubSeq(g, 1, Len(d)) = d}}

\* The faults a run may meet: a file operation that fails on a path.
FaultPool == {<<DstDirPath \o <<<<"p">>, <<"a">>, <<"x", ".", "t", "x", "t">>>>, "open">>, <<DstDirPath \o <<<<"p">>, <<"a">>, <<"s", "u", "b">>>>, "list">>, <<DstDirPath \o <<<<"p">>, <<"a">>, <<"s", "u", "b">>, <<"y", ".", "t", "x", "t">>>>, "copy">>, <<DstDirPath \o <<<<"q">>, <<"a">>>>, "stat">>, <<DstDirPath \o <<<<"q">>, <<"a">>, <<"x", ".", "t", "x", "t">>>>, "create">>, <<Cwd, "getwd">>}

FaultSets == {F \in SUBSET FaultPool : Cardinality(F) <= MaxFaults}

\* os.Stat: fails on a missing path or an injected fault.
StatOk(p, F) == Resolve(p) \in Dirs \cup Files /\ <<Resolve(p), "stat">> \notin F

IsDir(p) == Resolve(p) \in Dirs

\* ------------------------------------------------------------------- globs

\* A pattern with a "[" that no later "]" closes is malformed.  (The
\* patterns drawn use "*", "?" and literal characters; the one malformed
\* pattern drawn is "[", which filepath.Match rejects for every name.)
Malformed(pat) == \E i \in 1..Len(pat) : pat[i] = "[" /\ ~ \E j \in (i + 2)..Len(pat) : pat[j] = "]"

\* Shell-style matching of a whole name: "*" any run, "?" any one character.
RECURSIVE GlobMatch(_, _)
GlobMatch(pat, s) == IF pat = <<>> THEN s = <<>> ELSE IF Head(pat) = "*" THEN \E k \in 0..Len(s) : GlobMatch(Tail(pat), SubSeq(s, k + 1, Len(s))) ELSE s # <<>> /\ (Head(pat) = "?" \/ Head(pat) = Head(s)) /\ GlobMatch(Tail(pat), Tail(s))

\* filepath.Match: "bad" for ErrBadPattern, else whether the name matches.
Match(pat, name) == IF Malformed(pat) THEN "bad" ELSE IF GlobMatch(pat, name) THEN "match" ELSE "nomatch"

\* As BlacklistVerdict, but consulting the first pattern only.
BlacklistVerdict_FirstOnly(blacklist, name) == IF blacklist = <<>> THEN "pass" ELSE LET m == Match(Head(blacklist), name) IN IF m = "bad" THEN "bad" ELSE IF m = "match" THEN "skip" ELSE "pass"

\* The blacklist loop of addSrc: the patterns in order, the first malformed
\* one returns its error, the first matching one skips the path.
RECURSIVE BlacklistVerdict(_, _)
BlacklistVerdict(blacklist, name) == IF blacklist = <<>> THEN "pass" ELSE LET m == Match(Head(blacklist), name) IN IF m = "bad" THEN "bad" ELSE IF m = "match" THEN "skip" ELSE BlacklistVerdict(Tail(blacklist), name)

\* ------------------------------------------------------------------ addSrc

\* path.Join of an archive path and a child's name.
JoinDst(dstPath, name) == dstPath \o <<"/">> \o name

NoResult == [entries |-> <<>>, errs |-> <<>>, ops |-> <<>>]

\* The results of two calls, one after the other.
Then(r1, r2) == [entries |-> r1.entries \o r2.entries, errs |-> r1.errs \o r2.errs, ops |-> r1.ops \o r2.ops]

\* An error of one operation on one path.
ErrOf(p, op) == [path |-> p, op |-> op]

\* The regular-file branch of addSrc: open, create the entry, copy.
AddFile(srcPath, dstPath, F) == IF <<Resolve(srcPath), "open">> \in F THEN [entries |-> <<>>, errs |-> <<ErrOf(srcPath, "open")>>, ops |-> <<<<srcPath, "stat">>, <<srcPath, "open">>>>] ELSE IF <<Resolve(srcPath), "create">> \in F THEN [entries |-> <<>>, errs |-> <<ErrOf(srcPath, "create")>>, ops |-> <<<<srcPath, "stat">>, <<srcPath, "open">>>>] ELSE IF <<Resolve(srcPath), "copy">> \in F THEN [entries |-> <<[name |-> dstPath, whole |-> FALSE, from |-> srcPath]>>, errs |-> <<ErrOf(srcPath, "copy")>>, ops |-> <<<<srcPath, "stat">>, <<srcPath, "open">>>>] ELSE [entries |-> <<[name |-> dstPath, whole |-> TRUE, from |-> srcPath]>>, errs |-> <<>>, ops |-> <<<<srcPath, "stat">>, <<srcPath, "open">>>>]

\* addSrc(w, srcPath, dstPath, blacklist) under the faults F: the entries
\* written to the archive (an entry's name, whether all its bytes were
\* copied, and the file it was read from), the errors returned, and the
\* stat, list and open calls made, all in the order of the walk.
RECURSIVE addSrc(_, _, _, _)
RECURSIVE AddChildren(_, _, _, _, _)
\* As AddChildren, but returning at the first child that fails.
AddChildren_ShortCircuit(names, srcPath, dstPath, blacklist, F) == IF names = <<>> THEN NoResult ELSE LET r == addSrc(Append(srcPath, Head(names)), JoinDst(dstPath, Head(names)), blacklist, F) IN IF r.errs # <<>> THEN r ELSE Then(r, AddChildren(Tail(names), srcPath, dstPath, blacklist, F))

addSrc(srcPath, dstPath, blacklist, F) == LET v == BlacklistVerdict(blacklist, Base(srcPath)) IN IF v = "bad" THEN [entries |-> <<>>, errs |-> <<ErrOf(srcPath, "glob")>>, ops |-> <<>>] ELSE IF v = "skip" THEN NoResult ELSE IF ~StatOk(srcPath, F) THEN [entries |-> <<>>, errs |-> <<ErrOf(srcPath, "stat")>>, ops |-> <<<<srcPath, "stat">>>>] ELSE IF IsDir(srcPath) THEN IF <<Resolve(srcPath), "list">> \in F THEN [entries |-> <<>>, errs |-> <<ErrOf(srcPath, "list")>>, ops |-> <<<<srcPath, "stat">>, <<srcPath, "list">>>>] ELSE Then([entries |-> <<>>, errs |-> <<>>, ops |-> <<<<srcPath, "stat">>, <<srcPath, "list">>>>], AddChildren(SortedSeq(Children(Resolve(srcPath))), srcPath, dstPath, blacklist, F)) ELSE AddFile(srcPath, dstPath, F)

\* The loop of addSrc over a directory's children.
AddChildren(names, srcPath, dstPath, blacklist, F) == IF names = <<>> THEN NoResult ELSE Then(addSrc(Append(srcPath, Head(names)), JoinDst(dstPath, Head(names)), blacklist, F), AddChildren(Tail(names), srcPath, dstPath, blacklist, F))

\* As SourcePrefix, but without the number of the source.
SourcePrefix_NoIndex(i, srcPath) == <<"s", "o", "u", "r", "c", "e", "-">> \o <<":", "-">> \o Base(srcPath)

\* The archive path main gives a source: "source-<i>:-<base name>".
SourcePrefix(i, srcPath) == <<"s", "o", "u", "r", "c", "e", "-">> \o Itoa(i) \o <<":", "-">> \o Base(srcPath)

\* ------------------------------------------------------- retention pattern

\* One element of a pattern: between min and max characters of a set.
Rep(set, lo, hi) == [set |-> set, min |-> lo, max |-> hi]

Lit(c) == Rep({c}, 1, 1)

\* As backupReg, but with a year of one to four digits.
backupReg_YearUpToFour == <<Rep(DigitSet, 10, 10), Lit("_"), Lit("U"), Lit("T"), Lit("C"), Lit("-"), Rep(DigitSet, 1, 4), Lit("-"), Rep(DigitSet, 1, 2), Lit("-"), Rep(DigitSet, 1, 2)>>

\* "^\d{10}_UTC-\d{4}-\d{1,2}-\d{1,2}"
backupReg == <<Rep(DigitSet, 10, 10), Lit("_"), Lit("U"), Lit("T"), Lit("C"), Lit("-"), Rep(DigitSet, 4, 4), Lit("-"), Rep(DigitSet, 1, 2), Lit("-"), Rep(DigitSet, 1, 2)>>

\* Whether a prefix of s matches the elements in order.
RECURSIVE MatchPrefix(_, _)
MatchPrefix(items, s) == IF items = <<>> THEN TRUE ELSE \E n \in Head(items).min..Head(items).max : /\ n <= Len(s)
                                                                                                   /\ \A j \in 1..n : s[j] \in Head(items).set
                                                                                                   /\ MatchPrefix(Tail(items), SubSeq(s, n + 1, Len(s)))

\* backupReg.MatchString(name): the pattern is anchored at the start only.
MatchString(name) == MatchPrefix(backupReg, name)

\* The number of backups retention keeps.
Keep == 3

\* As OldBackupNames, but deleting from the new end of the sorted names.
OldBackupNames_Newest(backupInfos) == LET backupNames == SortStrings(SelectSeq(backupInfos, MatchString)) IN LET deleteCount == IF Len(backupNames) - Keep < 0 THEN 0 ELSE Len(backupNames) - Keep IN SubSeq(backupNames, Len(backupNames) - deleteCount + 1, Len(backupNames))

\* As OldBackupNames, but without the filter on the pattern.
OldBackupNames_Unfiltered(backupInfos) == LET backupNames == SortStrings(backupInfos) IN LET deleteCount == IF Len(backupNames) - Keep < 0 THEN 0 ELSE Len(backupNames) - Keep IN SubSeq(backupNames, 1, deleteCount)

\* The names retention deletes, given the directory listing: the matching
\* names, sorted, without the last Keep.
OldBackupNames(backupInfos) == LET backupNames == SortStrings(SelectSeq(backupInfos, MatchString)) IN LET deleteCount == IF Len(backupNames) - Keep < 0 THEN 0 ELSE Len(backupNames) - Keep IN SubSeq(backupNames, 1, deleteCount)

\* ioutil.ReadDir: the directory's entries sorted by file name.
ReadDir(dir) == SortedSeq(dir)

\* ------------------------------------------------------------------ inputs

\* The instants time.Now().UTC() may give, with their calendar date.
Instants == {[unix |-> 1400000000, year |-> 2014, month |-> 5, day |-> 13], [unix |-> 1600000000, year |-> 2020, month |-> 9, day |-> 13], [unix |-> 1600086400, year |-> 2020, month |-> 9, day |-> 14]}

\* The instant of the r-th run of a sequence of runs, one day after the last.
SeqInstant(r) == [unix |-> 1600000000 + 86400 * (r - 1), year |-> 2020, month |-> 9, day |-> 12 + r]

\* The instants the r-th run of a family may start at.
Clock(f, r) == IF f = "retention" THEN Instants ELSE IF f = "sequence" THEN {SeqInstant(r)} ELSE {t \in Instants : t.year = 2014}

\* fmt.Sprintf("%d_UTC-%d-%d-%d.zip", t.Unix(), t.Year(), t.Month(), t.Day())
DstFileName(t) == Itoa(t.unix) \o <<"_", "U", "T", "C", "-">> \o Itoa(t.year) \o <<"-">> \o Itoa(t.month) \o <<"-">> \o Itoa(t.day) \o <<".", "z", "i", "p">>

\* Names the backups directory may hold before the first run: archives of
\* 2017, names with a three-digit and a one-digit year, and a file that is no
\* archive.
PreNames == {<<"1", "5", "0", "0", "0", "0", "0", "0", "0", "0", "_", "U", "T", "C", "-", "2", "0", "1", "7", "-", "7", "-", "1", "4", ".", "z", "i", "p">>, <<"1", "5", "0", "0", "0", "8", "6", "4", "0", "0", "_", "U", "T", "C", "-", "2", "0", "1", "7", "-", "7", "-", "1", "5", ".", "z", "i", "p">>, <<"1", "5", "0", "0", "1", "7", "2", "8", "0", "0", "_", "U", "T", "C", "-", "2", "0", "1", "7", "-", "7", "-", "1", "6", ".", "z", "i", "p">>, <<"1", "0", "0", "0", "0", "0", "0", "0", "0", "0", "_", "U", "T", "C", "-", "9", "9", "9", "-", "1", "-", "1", ".", "z", "i", "p">>, <<"1", "0", "0", "0", "0", "0", "0", "0", "0", "1", "_", "U", "T", "C", "-", "7", "-", "1", "-", "1", ".", "z", "i", "p">>, <<"n", "o", "t", "e", "s", ".", "t", "x", "t">>}

\* The sources a configuration may list: a directory with no blacklist, with
\* two well-formed patterns, and with a malformed pattern before one that
\* matches the directory's own name; a second directory of the same base name;
\* and a regular file.
SourceSeq == <<[Path |-> <<<<"p">>, <<"a">>>>, Blacklist |-> <<>>], [Path |-> <<<<"p">>, <<"a">>>>, Blacklist |-> <<<<"s", "u", "b">>, <<"*", ".", "b", "a", "d">>>>], [Path |-> <<<<"p">>, <<"a">>>>, Blacklist |-> <<<<"[">>, <<"a">>>>], [Path |-> <<<<"q">>, <<"a">>>>, Blacklist |-> <<>>], [Path |-> <<<<"f", ".", "t", "x", "t">>>>, Blacklist |-> <<>>]>>

SourcePool == Range(SourceSeq)

\* The lists of sources, a source listed once or more; of the lists that
\* differ in the order of their sources alone, one is taken.
SourceLists == {[j \in 1..Len(x) |-> SourceSeq[x[j]]] : x \in {y \in UNION {[1..n -> 1..Len(SourceSeq)] : n \in 0..MaxSources} : \A j \in 1..(Len(y) - 1) : y[j] <= y[j + 1]}}

\* One source, nothing excluded.
PlainSources == {<<[Path |-> <<<<"p">>, <<"a">>>>, Blacklist |-> <<>>]>>}

\* The notification part of a configuration.
Notifiers == [ErrorContacts : {<<>>, <<"ops@example.com">>}, SendGridAPIKey : {"", "key"}, UseSendGrid : BOOLEAN, SalesScribeAPIKey : {"", "key"}, UseSalesScribe : BOOLEAN]

\* One contact, SendGrid alone enabled.
PlainNotifiers == {[ErrorContacts |-> <<"ops@example.com">>, SendGridAPIKey |-> "key", UseSendGrid |-> TRUE, SalesScribeAPIKey |-> "", UseSalesScribe |-> FALSE]}

\* One contact, both providers enabled, each with its key.
BothNotifiers == {[ErrorContacts |-> <<"ops@example.com">>, SendGridAPIKey |-> "key", UseSendGrid |-> TRUE, SalesScribeAPIKey |-> "key", UseSalesScribe |-> TRUE]}

\* No contact, no key, nothing enabled.
QuietNotifiers == {[ErrorContacts |-> <<>>, SendGridAPIKey |-> "", UseSendGrid |-> FALSE, SalesScribeAPIKey |-> "", UseSalesScribe |-> FALSE]}

\* type configuration
Configuration(n, srcs) == [Name |-> "test", ErrorContacts |-> n.ErrorContacts, SendGridAPIKey |-> n.SendGridAPIKey, UseSendGrid |-> n.UseSendGrid, SalesScribeAPIKey |-> n.SalesScribeAPIKey, UseSalesScribe |-> n.UseSalesScribe, Sources |-> srcs]

\* var config configuration: the zero value.
ZeroConfig == [Name |-> "", ErrorContacts |-> <<>>, SendGridAPIKey |-> "", UseSendGrid |-> FALSE, SalesScribeAPIKey |-> "", UseSalesScribe |-> FALSE, Sources |-> <<>>]

Versions == {"part_000", "main", "part_001"}

\* The model explores three families of runs, each wide in one part of the
\* input and narrow in the others: the sources and faults ("archive"), the
\* backups directory over repeated runs ("retention"), the notification
\* settings ("report").  A fourth family, "sequence", is explored on its own:
\* runs that follow one another at increasing times.
Focuses == {"archive", "retention", "report"}

\* The configurations config.json may hold.
ConfigPool(f) == IF f = "archive" THEN {Configuration(n, s) : n \in QuietNotifiers, s \in SourceLists} ELSE IF f = "report" THEN {Configuration(n, s) : n \in Notifiers, s \in PlainSources} ELSE IF f = "sequence" THEN {Configuration(n, s) : n \in BothNotifiers, s \in PlainSources} ELSE {Configuration(n, s) : n \in PlainNotifiers, s \in PlainSources}

\* At most the one fault that the plain source meets.
PlainFaults == {{}, {<<DstDirPath \o <<<<"p">>, <<"a">>, <<"x", ".", "t", "x", "t">>>>, "open">>}}

\* ------------------------------------------------------------------- state

VARIABLES
  version,           \* which edition of the program runs
  focus,             \* the family of runs explored
  run,               \* how many times the program was started
  hasArg,            \* len(os.Args) >= 2
  faults,            \* the file operations that fail in this run
  backups,           \* the names in the backups directory
  pc,                \* the position in main
  panicking,         \* the function whose panic is unwinding the stack, if any
  defers,            \* the deferred calls, the last deferred first
  errs,              \* e.errs, the Error Accumulator
  deleteOldBackups,  \* part_000's flag
  config,            \* the configuration loaded
  dstFileName,       \* the name of this run's archive
  i,                 \* the index of the source loops
  archive,           \* the entries written to the zip
  ops,               \* the stat, list and open calls of addSrc
  returned,          \* the errors addSrc returned, by source
  oldBackupNames,    \* the names retention is deleting
  k,                 \* the index of the removal loop
  log,               \* what the logger printed
  removed,           \* the names passed to os.Remove, with the outcome
  dirAtList,         \* the backups directory as retention listed it
  loopEndErrs,       \* whether an error was on record when the source loop ended
  attempts,          \* the calls of the providers' send routines
  reportRuns,        \* how many times report was entered
  lastErrorFree,     \* the archive of the last earlier run of the sequence that ended with an empty Error Accumulator
  lastArchived       \* the archive of the last earlier run of the sequence that archived with no error on record

vars == <<version, focus, run, hasArg, faults, backups, pc, panicking, defers, errs, deleteOldBackups, config, dstFileName, i, archive, ops, returned, oldBackupNames, k, log, removed, dirAtList, loopEndErrs, attempts, reportRuns, lastErrorFree, lastArchived>>

\* What one start of the program begins with.
Fresh == /\ pc = "setup"
         /\ panicking = ""
         /\ defers = <<>>
         /\ errs = <<>>
         /\ deleteOldBackups = TRUE
         /\ config = ZeroConfig
         /\ dstFileName = <<>>
         /\ i = 1
         /\ archive = <<>>
         /\ ops = <<>>
         /\ returned = <<>>
         /\ oldBackupNames = <<>>
         /\ k = 1
         /\ log = <<>>
         /\ removed = <<>>
         /\ dirAtList = {}
         /\ loopEndErrs = "unset"
         /\ attempts = <<>>
         /\ reportRuns = 0

\* The command line and the faults of a start, by the family explored.
Environment(f, arg, F) == /\ arg \in (IF f = "report" THEN BOOLEAN ELSE {TRUE})
                          /\ F \in (IF f = "archive" THEN FaultSets ELSE PlainFaults)

\* The backups directory before the first start: none, one, two or three
\* archives of 2017, with or without the three names that are no archives.
FirstDirs(f) == IF f = "retention" THEN {d \in SUBSET PreNames : (<<"n", "o", "t", "e", "s", ".", "t", "x", "t">> \in d <=> <<"1", "0", "0", "0", "0", "0", "0", "0", "0", "0", "_", "U", "T", "C", "-", "9", "9", "9", "-", "1", "-", "1", ".", "z", "i", "p">> \in d) /\ (<<"n", "o", "t", "e", "s", ".", "t", "x", "t">> \in d <=> <<"1", "0", "0", "0", "0", "0", "0", "0", "0", "1", "_", "U", "T", "C", "-", "7", "-", "1", "-", "1", ".", "z", "i", "p">> \in d) /\ (<<"1", "5", "0", "0", "0", "8", "6", "4", "0", "0", "_", "U", "T", "C", "-", "2", "0", "1", "7", "-", "7", "-", "1", "5", ".", "z", "i", "p">> \in d => <<"1", "5", "0", "0", "0", "0", "0", "0", "0", "0", "_", "U", "T", "C", "-", "2", "0", "1", "7", "-", "7", "-", "1", "4", ".", "z", "i", "p">> \in d) /\ (<<"1", "5", "0", "0", "1", "7", "2", "8", "0", "0", "_", "U", "T", "C", "-", "2", "0", "1", "7", "-", "7", "-", "1", "6", ".", "z", "i", "p">> \in d => <<"1", "5", "0", "0", "0", "8", "6", "4", "0", "0", "_", "U", "T", "C", "-", "2", "0", "1", "7", "-", "7", "-", "1", "5", ".", "z", "i", "p">> \in d)} ELSE IF f = "sequence" THEN {{}, {<<"1", "5", "0", "0", "0", "0", "0", "0", "0", "0", "_", "U", "T", "C", "-", "2", "0", "1", "7", "-", "7", "-", "1", "4", ".", "z", "i", "p">>, <<"1", "5", "0", "0", "0", "8", "6", "4", "0", "0", "_", "U", "T", "C", "-", "2", "0", "1", "7", "-", "7", "-", "1", "5", ".", "z", "i", "p">>, <<"1", "5", "0", "0", "1", "7", "2", "8", "0", "0", "_", "U", "T", "C", "-", "2", "0", "1", "7", "-", "7", "-", "1", "6", ".", "z", "i", "p">>}} ELSE {{}}

Init == /\ version \in Versions
        /\ focus \in Focuses
        /\ run = 1
        /\ Environment(focus, hasArg, faults)
        /\ backups \in FirstDirs(focus)
        /\ lastErrorFree = <<>>
        /\ lastArchived = <<>>
        /\ Fresh

\* The start of a sequence of runs at increasing times, on a directory whose
\* archives, if any, are older than the first run.
InitRuns == /\ version \in Versions
            /\ focus = "sequence"
            /\ run = 1
            /\ Environment(focus, hasArg, faults)
            /\ backups \in FirstDirs(focus)
            /\ lastErrorFree = <<>>
            /\ lastArchived = <<>>
            /\ Fresh

\* The variables of the environment and of the run's history that a step of
\* main leaves alone unless it says otherwise.
Env == <<version, focus, run, hasArg, faults, lastErrorFree, lastArchived>>

HasHandler == version # "part_000"

\* Whether an error is on record: e.errs holds one, or part_000's flag is down.
ErrorsOccurred == IF HasHandler THEN Len(errs) > 0 ELSE ~deleteOldBackups

\* ------------------------------------------------------------ errorHandler

\* e.print(err) for each of a sequence of errors: append and log.  In
\* part_000 the errors are logged and the flag goes down.
PrintAll(es) == /\ errs' = IF HasHandler THEN errs \o es ELSE errs
                /\ log' = log \o es
                /\ deleteOldBackups' = IF HasHandler \/ es = <<>> THEN deleteOldBackups ELSE FALSE

\* As Panic, but ending the process at once, as log.Fatal would.
Panic_Fatal(err) == /\ errs' = IF HasHandler THEN Append(errs, err) ELSE errs
                    /\ log' = Append(log, err)
                    /\ panicking' = "main"
                    /\ pc' = "exit"

\* e.panic(err): append, log and panic.  In part_000, l.Panic(err).
Panic(err) == /\ errs' = IF HasHandler THEN Append(errs, err) ELSE errs
              /\ log' = Append(log, err)
              /\ panicking' = "main"
              /\ pc' = "unwind"

\* An error of main itself, not of a path.
MainErr(what) == ErrOf(<<>>, what)

\* A step that either fails with a panic or goes on to the next position.
MayPanic(at, what, next) == /\ pc = at
                            /\ \E ok \in BOOLEAN : IF ok THEN pc' = next /\ UNCHANGED <<errs, log, panicking>> ELSE Panic(MainErr(what))
                            /\ UNCHANGED <<Env, backups, defers, deleteOldBackups, config, dstFileName, i, archive, ops, returned, oldBackupNames, k, removed, dirAtList, loopEndErrs, attempts, reportRuns>>

\* -------------------------------------------------------------------- main

\* The error handler and its deferred report; part_000 has neither.
SetUp == /\ pc = "setup"
         /\ pc' = "args"
         /\ defers' = IF HasHandler THEN <<"report">> ELSE <<>>
         /\ UNCHANGED <<Env, backups, panicking, errs, deleteOldBackups, config, dstFileName, i, archive, ops, returned, oldBackupNames, k, log, removed, dirAtList, loopEndErrs, attempts, reportRuns>>

\* Validate CLI args: too few are printed and main returns; part_000 panics.
CheckArgs == /\ pc = "args"
             /\ IF hasArg THEN pc' = "logger" /\ UNCHANGED <<errs, log, panicking>> ELSE IF HasHandler THEN PrintAll(<<MainErr("Not enough arguments.")>>) /\ pc' = "unwind" /\ UNCHANGED panicking ELSE Panic(MainErr("Not enough arguments."))
             /\ UNCHANGED <<Env, backups, defers, deleteOldBackups, config, dstFileName, i, archive, ops, returned, oldBackupNames, k, removed, dirAtList, loopEndErrs, attempts, reportRuns>>

ConfigureLogger == MayPanic("logger", "log.txt", "abs")

AbsDstDir == MayPanic("abs", "filepath.Abs", "read")

ReadConfig == MayPanic("read", "config.json", "parse")

\* json.Unmarshal: the configuration, or an error; with an error the fields
\* decoded so far stay set.  part_000 prints the error and goes on.
ParseConfig == /\ pc = "parse"
               /\ \E ok \in BOOLEAN : \E cfg \in ConfigPool(focus) \cup {ZeroConfig} :
                    /\ config' = cfg
                    /\ i' = 1
                    /\ IF ok THEN /\ pc' = (IF HasHandler THEN "name" ELSE "validate")
                                  /\ UNCHANGED <<errs, log, panicking, deleteOldBackups>>
                       ELSE IF HasHandler THEN Panic(MainErr("json.Unmarshal")) /\ UNCHANGED deleteOldBackups
                       ELSE PrintAll(<<MainErr("json.Unmarshal")>>) /\ pc' = "validate" /\ UNCHANGED panicking
               /\ UNCHANGED <<Env, backups, defers, dstFileName, archive, ops, returned, oldBackupNames, k, removed, dirAtList, loopEndErrs, attempts, reportRuns>>

\* part_000: make a source's path absolute (filepath.Abs fails when the
\* working directory cannot be read) and check that it exists; each failure
\* is printed and lowers the flag.
ValidateSource == /\ pc = "validate"
                  /\ i <= Len(config.Sources)
                  /\ LET absOk == <<Cwd, "getwd">> \notin faults IN
                       LET path == IF absOk THEN Resolve(config.Sources[i].Path) ELSE config.Sources[i].Path
                           absErr == IF absOk THEN <<>> ELSE <<ErrOf(path, "filepath.Abs")>>
                           statErr == IF StatOk(path, faults) THEN <<>> ELSE <<ErrOf(path, "stat")>>
                       IN /\ config' = [config EXCEPT !.Sources[i].Path = path]
                          /\ PrintAll(absErr \o statErr)
                  /\ i' = i + 1
                  /\ UNCHANGED <<Env, backups, pc, panicking, defers, dstFileName, archive, ops, returned, oldBackupNames, k, removed, dirAtList, loopEndErrs, attempts, reportRuns>>

ValidateDone == /\ pc = "validate"
                /\ i > Len(config.Sources)
                /\ pc' = "name"
                /\ i' = 1
                /\ UNCHANGED <<Env, backups, panicking, defers, errs, deleteOldBackups, config, dstFileName, archive, ops, returned, oldBackupNames, k, log, removed, dirAtList, loopEndErrs, attempts, reportRuns>>

\* Create destination file name.
NameDst == /\ pc = "name"
           /\ \E t \in Clock(focus, run) : dstFileName' = DstFileName(t)
           /\ pc' = "mkdir"
           /\ UNCHANGED <<Env, backups, panicking, defers, errs, deleteOldBackups, config, i, archive, ops, returned, oldBackupNames, k, log, removed, dirAtList, loopEndErrs, attempts, reportRuns>>

\* Create backup dir if not exist.
MkBackupsDir == MayPanic("mkdir", "os.Mkdir", "create")

\* Create destination file: the archive appears in the backups directory and
\* the closing of the file and of the zip writer are deferred.
CreateDst == /\ pc = "create"
             /\ \E ok \in BOOLEAN : IF ok THEN /\ backups' = backups \cup {dstFileName}
                                               /\ defers' = <<"dstZip.Close", "dstFile.Close">> \o defers
                                               /\ pc' = "sources"
                                               /\ UNCHANGED <<errs, log, panicking>>
                                    ELSE Panic(MainErr("os.Create")) /\ UNCHANGED <<backups, defers>>
             /\ UNCHANGED <<Env, deleteOldBackups, config, dstFileName, i, archive, ops, returned, oldBackupNames, k, removed, dirAtList, loopEndErrs, attempts, reportRuns>>

\* The path main hands to addSrc for a source: main.go joins it to the
\* configuration directory, the others pass it as it is.
SourcePath(src) == IF version = "main" THEN DstDirPath \o src.Path ELSE src.Path

\* The results of addSrc marked with the index of the source.
Tag(s, n) == [j \in 1..Len(s) |-> [src |-> n, at |-> s[j]]]

\* Add sources to destination file: one turn of the loop.
AddSource == /\ pc = "sources"
             /\ i <= Len(config.Sources)
             /\ LET srcPath == SourcePath(config.Sources[i])
                    r == addSrc(srcPath, SourcePrefix(i, srcPath), config.Sources[i].Blacklist, faults)
                IN /\ archive' = archive \o Tag(r.entries, i)
                   /\ ops' = ops \o Tag(r.ops, i)
                   /\ returned' = returned \o Tag(r.errs, i)
                   /\ PrintAll(r.errs)
             /\ i' = i + 1
             /\ UNCHANGED <<Env, backups, pc, panicking, defers, config, dstFileName, oldBackupNames, k, removed, dirAtList, loopEndErrs, attempts, reportRuns>>

\* As Gate, but going on to the deletion whatever was recorded.
Gate_Open == /\ pc = "sources"
             /\ i > Len(config.Sources)
             /\ loopEndErrs' = IF ErrorsOccurred THEN "some" ELSE "none"
             /\ pc' = "readdir"
             /\ UNCHANGED <<Env, backups, panicking, defers, errs, deleteOldBackups, config, dstFileName, i, archive, ops, returned, oldBackupNames, k, log, removed, dirAtList, attempts, reportRuns>>

\* Delete old backups: not when errors occurred.
Gate == /\ pc = "sources"
        /\ i > Len(config.Sources)
        /\ loopEndErrs' = IF ErrorsOccurred THEN "some" ELSE "none"
        /\ IF ErrorsOccurred THEN Panic(MainErr("Errors occurred. Old backups will not be deleted automatically.")) ELSE pc' = "readdir" /\ UNCHANGED <<errs, log, panicking>>
        /\ UNCHANGED <<Env, backups, defers, deleteOldBackups, config, dstFileName, i, archive, ops, returned, oldBackupNames, k, removed, dirAtList, attempts, reportRuns>>

\* List the backups directory and pick the names to delete.  (The pattern
\* is a constant that compiles, so regexp.Compile returns no error.)
ListBackups == /\ pc = "readdir"
               /\ \E ok \in BOOLEAN : IF ok THEN /\ oldBackupNames' = OldBackupNames(ReadDir(backups))
                                                 /\ dirAtList' = backups
                                                 /\ k' = 1
                                                 /\ pc' = "remove"
                                                 /\ UNCHANGED <<errs, log, panicking>>
                                      ELSE Panic(MainErr("Unable to delete old backups")) /\ UNCHANGED <<oldBackupNames, dirAtList, k>>
               /\ UNCHANGED <<Env, backups, defers, deleteOldBackups, config, dstFileName, i, archive, ops, returned, removed, loopEndErrs, attempts, reportRuns>>

\* As AfterRemove, but printing the error of os.Remove without recording it.
AfterRemove_LogOnly(name, ok) == /\ log' = IF ok THEN Append(log, ErrOf(<<name>>, "Deleting old backup")) ELSE log \o <<ErrOf(<<name>>, "Deleting old backup"), ErrOf(<<name>>, "remove")>>
                                 /\ UNCHANGED errs

\* What the removal loop does with the result of os.Remove: main.go and
\* part_001 call e.printIfErr(err), part_000 prints the error.
AfterRemove(name, ok) == IF ok THEN /\ log' = Append(log, ErrOf(<<name>>, "Deleting old backup"))
                                    /\ UNCHANGED errs
                         ELSE /\ log' = log \o <<ErrOf(<<name>>, "Deleting old backup"), ErrOf(<<name>>, "remove")>>
                              /\ errs' = IF HasHandler THEN Append(errs, ErrOf(<<name>>, "remove")) ELSE errs

\* One turn of the removal loop.
RemoveOld == /\ pc = "remove"
             /\ k <= Len(oldBackupNames)
             /\ \E ok \in BOOLEAN : /\ backups' = IF ok THEN backups \ {oldBackupNames[k]} ELSE backups
                                    /\ removed' = Append(removed, [name |-> oldBackupNames[k], ok |-> ok])
                                    /\ AfterRemove(oldBackupNames[k], ok)
             /\ k' = k + 1
             /\ UNCHANGED <<Env, pc, panicking, defers, deleteOldBackups, config, dstFileName, i, archive, ops, returned, oldBackupNames, dirAtList, loopEndErrs, attempts, reportRuns>>

\* l.Print("Done.") and the return of main.
Done == /\ pc = "remove"
        /\ k > Len(oldBackupNames)
        /\ log' = Append(log, MainErr("Done."))
        /\ pc' = "unwind"
        /\ UNCHANGED <<Env, backups, panicking, defers, errs, deleteOldBackups, config, dstFileName, i, archive, ops, returned, oldBackupNames, k, removed, dirAtList, loopEndErrs, attempts, reportRuns>>

\* --------------------------------------------------------- deferred calls

\* The end of main, by return or by panic: the deferred calls run, the last
\* deferred first, and then the process exits.
Unwind == /\ pc = "unwind"
          /\ IF defers = <<>> THEN pc' = "exit" /\ UNCHANGED <<defers, reportRuns>>
             ELSE IF Head(defers) = "report" THEN pc' = "report" /\ defers' = Tail(defers) /\ reportRuns' = reportRuns + 1
             ELSE pc' = "unwind" /\ defers' = Tail(defers) /\ UNCHANGED reportRuns
          /\ UNCHANGED <<Env, backups, panicking, errs, deleteOldBackups, config, dstFileName, i, archive, ops, returned, oldBackupNames, k, log, removed, dirAtList, loopEndErrs, attempts>>

\* A line of the log that is no error of a path.
Line(text) == MainErr(text)

\* e.logger.Panic inside report.
ReportPanic(text) == /\ log' = Append(log, Line(text))
                     /\ panicking' = "report"
                     /\ pc' = "unwind"

\* The head of main.go's report: nothing without errors, a panic without a
\* SendGrid key, else on to the request.
ReportMain == IF Len(errs) = 0 THEN pc' = "unwind" /\ UNCHANGED <<log, panicking>> ELSE IF config.SendGridAPIKey = "" THEN ReportPanic("No SendGrid API key for report email.") ELSE pc' = "sendGrid" /\ UNCHANGED <<log, panicking>>

\* The head of part_001's report: nothing without contacts, nothing without
\* errors, else on to the providers.
ReportContacts == IF Len(config.ErrorContacts) = 0 THEN pc' = "unwind" /\ log' = Append(log, Line("Warning: No error contacts were specified.")) /\ UNCHANGED panicking ELSE IF Len(errs) = 0 THEN pc' = "unwind" /\ log' = Append(log, Line("No errors occurred.")) /\ UNCHANGED panicking ELSE pc' = "salesScribe" /\ UNCHANGED <<log, panicking>>

\* Reports errors via email.
Report == /\ pc = "report"
          /\ IF version = "main" THEN ReportMain ELSE ReportContacts
          /\ UNCHANGED <<Env, backups, defers, errs, deleteOldBackups, config, dstFileName, i, archive, ops, returned, oldBackupNames, k, removed, dirAtList, loopEndErrs, attempts, reportRuns>>

\* The summary: the backup's name and the errors in the order recorded.
Message == [name |-> config.Name, errors |-> errs]

\* What a request may come to.
Outcomes == {"2xx", "transport error", "non-2xx"}

\* One call of a provider's send routine of part_001: without a key it
\* returns an error before any request; else it posts the summary to the
\* contacts.  report prints the error returned, if any.
Send(provider, key, next) == /\ \E o \in (IF key = "" THEN {"no key"} ELSE Outcomes) :
                                  /\ attempts' = Append(attempts, [provider |-> provider, outcome |-> o, message |-> Message, to |-> config.ErrorContacts])
                                  /\ log' = log \o <<Line("Sending error email")>> \o (IF o = "2xx" THEN <<>> ELSE <<ErrOf(<<>>, provider)>>)
                             /\ pc' = next
                             /\ UNCHANGED panicking

\* if config.SalesScribeEnable { ... salesScribe(config, subject, message) }
SalesScribe == /\ pc = "salesScribe"
               /\ IF config.UseSalesScribe THEN Send("SalesScribe", config.SalesScribeAPIKey, "sendGrid") ELSE pc' = "sendGrid" /\ UNCHANGED <<attempts, log, panicking>>
               /\ UNCHANGED <<Env, backups, defers, errs, deleteOldBackups, config, dstFileName, i, archive, ops, returned, oldBackupNames, k, removed, dirAtList, loopEndErrs, reportRuns>>

\* main.go's request to SendGrid: to the address written in the code, and
\* a transport error or a status that is not 2xx panics.
SendGridMain == \E o \in Outcomes : /\ attempts' = Append(attempts, [provider |-> "SendGrid", outcome |-> o, message |-> Message, to |-> <<"james@keve.ren">>])
                                    /\ IF o = "2xx" THEN pc' = "unwind" /\ UNCHANGED <<log, panicking>> ELSE ReportPanic("SendGrid")

\* if config.SendGridEnable { ... sendGrid(config, subject, message) }
SendGridContacts == IF config.UseSendGrid THEN Send("SendGrid", config.SendGridAPIKey, "unwind") ELSE pc' = "unwind" /\ UNCHANGED <<attempts, log, panicking>>

SendGrid == /\ pc = "sendGrid"
            /\ IF version = "main" THEN SendGridMain ELSE SendGridContacts
            /\ UNCHANGED <<Env, backups, defers, errs, deleteOldBackups, config, dstFileName, i, archive, ops, returned, oldBackupNames, k, removed, dirAtList, loopEndErrs, reportRuns>>

\* The run archived its sources with no error on record.
RunArchived == loopEndErrs = "none"

\* The run ended without a panic and with nothing in the Error Accumulator.
RunErrorFree == loopEndErrs = "none" /\ panicking = "" /\ errs = <<>>

\* The program is started again on the same directory (log.txt is truncated).
Rerun == /\ pc = "exit"
         /\ focus \in {"retention", "sequence"}
         /\ run < (IF focus = "sequence" THEN MaxSeqRuns ELSE MaxRuns)
         /\ lastErrorFree' = IF focus = "sequence" /\ RunErrorFree THEN dstFileName ELSE lastErrorFree
         /\ lastArchived' = IF focus = "sequence" /\ RunArchived THEN dstFileName ELSE lastArchived
         /\ run' = run + 1
         /\ \E arg \in BOOLEAN, F \in PlainFaults : Environment(focus, arg, F) /\ hasArg' = arg /\ faults' = F
         /\ pc' = "setup"
         /\ panicking' = ""
         /\ defers' = <<>>
         /\ errs' = <<>>
         /\ deleteOldBackups' = TRUE
         /\ config' = ZeroConfig
         /\ dstFileName' = <<>>
         /\ i' = 1
         /\ archive' = <<>>
         /\ ops' = <<>>
         /\ returned' = <<>>
         /\ oldBackupNames' = <<>>
         /\ k' = 1
         /\ log' = <<>>
         /\ removed' = <<>>
         /\ dirAtList' = {}
         /\ loopEndErrs' = "unset"
         /\ attempts' = <<>>
         /\ reportRuns' = 0
         /\ UNCHANGED <<version, focus, backups>>

Next == \/ SetUp
        \/ CheckArgs
        \/ ConfigureLogger
        \/ AbsDstDir
        \/ ReadConfig
        \/ ParseConfig
        \/ ValidateSource
        \/ ValidateDone
        \/ NameDst
        \/ MkBackupsDir
        \/ CreateDst
        \/ AddSource
        \/ Gate
        \/ ListBackups
        \/ RemoveOld
        \/ Done
        \/ Unwind
        \/ Report
        \/ SalesScribe
        \/ SendGrid
        \/ Rerun

Spec == Init /\ [][Next]_vars

\* Sequences of runs at increasing times.
SpecRuns == InitRuns /\ [][Next]_vars

\* ------------------------------------------------------------------ claims

\* The names of the directory, as retention listed it, that match the pattern.
Listed == {n \in dirAtList : MatchString(n)}

\* The c smallest names of a set.
Smallest(M, c) == {n \in M : Cardinality({m \in M : StrLess(m, n)}) < c}

\* Retention listed the directory and its removal loop has ended.
RetentionEnded == dirAtList # {} /\ (pc = "remove" => k > Len(oldBackupNames))

AllRemoved == \A j \in 1..Len(removed) : removed[j].ok

RemovedNames == {removed[j].name : j \in 1..Len(removed)}

\* C1: in a run whose archiving left no error on record and whose removals
\* all succeed, with B the number of matching names retention lists: if
\* B > 3 exactly the B-3 smallest matching names are deleted and the 3
\* largest remain, and if B <= 3 nothing is deleted.
C1_RetentionKeepsThree == (pc = "exit" /\ loopEndErrs = "none" /\ RetentionEnded /\ AllRemoved) =>
                             LET B == Cardinality(Listed)
                                 old == IF B > 3 THEN Smallest(Listed, B - 3) ELSE {}
                             IN /\ RemovedNames = old
                                /\ Len(removed) = Cardinality(old)
                                /\ backups = dirAtList \ old
                                /\ B > 3 => Cardinality(Listed \ old) = 3 /\ \A n \in old : \A m \in Listed \ old : StrLess(n, m)

\* A run that listed five matching names and deleted the two oldest.
C1_Witness == loopEndErrs = "none" /\ RetentionEnded /\ AllRemoved /\ Cardinality(Listed) = 5 /\ Len(removed) = 2 /\ pc = "exit"

\* The text of the abort at the gate.
ErrorsOccurredText == "Errors occurred. Old backups will not be deleted automatically."

AfterMain == {"unwind", "report", "salesScribe", "sendGrid", "exit"}

\* C2: if an error is on record when the source loop ends, nothing is
\* removed from the backups directory in that run: the directory is not
\* listed, and the run aborts with "Errors occurred. Old backups will not be
\* deleted automatically."
C2_ErrorsBypassRetention == (loopEndErrs = "some") =>
                               /\ removed = <<>>
                               /\ dirAtList = {}
                               /\ oldBackupNames = <<>>
                               /\ panicking # ""
                               /\ pc \in AfterMain
                               /\ MainErr(ErrorsOccurredText) \in Range(log)
                               /\ HasHandler => MainErr(ErrorsOccurredText) \in Range(errs)

\* A run with an archiving error that ends with more than three matching
\* names in the directory.
C2_Witness == loopEndErrs = "some" /\ pc = "exit" /\ Cardinality({n \in backups : MatchString(n)}) > 3

\* C3: a name that does not match the retention pattern is never passed to
\* os.Remove: of the names a run has passed to it when the run ends, each
\* matches.
C3_OnlyMatchingRemoved == (pc = "exit") => \A j \in 1..Len(removed) : MatchString(removed[j].name)

\* Names were removed from a directory that also holds names which do not
\* match, one of them sorting before every archive.
C3_Witness == pc = "exit" /\ Len(removed) > 0 /\ <<"n", "o", "t", "e", "s", ".", "t", "x", "t">> \in backups /\ <<"1", "0", "0", "0", "0", "0", "0", "0", "0", "0", "_", "U", "T", "C", "-", "9", "9", "9", "-", "1", "-", "1", ".", "z", "i", "p">> \in backups

\* C4: once the error handler is set up, however main ends, report has
\* been entered exactly once when the process exits, and after report was
\* entered no step of main and no other deferred call runs.
C4_ReportRunsOnceAtExit == [][/\ (HasHandler /\ pc' = "exit") => reportRuns' = 1
                              /\ (reportRuns >= 1 /\ pc # "exit") => /\ pc' \in AfterMain
                                                                     /\ reportRuns' = reportRuns
                                                                     /\ defers' = <<>>
                                                                     /\ UNCHANGED <<backups, errs, config, dstFileName, archive, removed, dirAtList>>]_vars

\* A run that a panic ended when the backups directory could not be listed,
\* and whose report ran.
C4_Witness == HasHandler /\ pc = "exit" /\ panicking = "main" /\ reportRuns = 1 /\ dstFileName \in backups /\ loopEndErrs = "none" /\ dirAtList = {}

\* The providers whose enable flag is set.
EnabledProviders == (IF config.UseSendGrid THEN {"SendGrid"} ELSE {}) \cup (IF config.UseSalesScribe THEN {"SalesScribe"} ELSE {})

AttemptedProviders == {attempts[j].provider : j \in 1..Len(attempts)}

\* C5 (as claimed): at shutdown the notification depends on the Error
\* Accumulator alone: with no error no send routine is called, and with an
\* error the send routine of each enabled provider is called once with the
\* summary (the backup's name and the errors in the order recorded), k
\* enabled providers giving k calls.
C5_Claim == (HasHandler /\ pc = "exit") =>
               IF Len(errs) = 0 THEN attempts = <<>>
               ELSE /\ AttemptedProviders = EnabledProviders
                    /\ Len(attempts) = Cardinality(EnabledProviders)
                    /\ \A j \in 1..Len(attempts) : attempts[j].message = Message

\* The removals that failed, as the errors they gave.
Failed(r) == ~r.ok

RemoveErrs == [j \in 1..Len(SelectSeq(removed, Failed)) |-> ErrOf(<<SelectSeq(removed, Failed)[j].name>>, "remove")]

Root(n) == Resolve(SourcePath(config.Sources[n]))

\* Whether f is q or lies below it.
Beneath(q, f) == Len(f) >= Len(q) /\ SubSeq(f, 1, Len(q)) = q

\* The paths from q down to f.
Chain(q, f) == {SubSeq(f, 1, m) : m \in Len(q)..Len(f)}

\* No pattern of the blacklist matches or fails on the name.
Clear(blacklist, name) == \A j \in 1..Len(blacklist) : Match(blacklist[j], name) = "nomatch"

\* Every operation on f and on the directories that lead to it succeeds.
Sound(n, f) == \A q \in Chain(Root(n), f) : /\ Clear(config.Sources[n].Blacklist, Base(q))
                                             /\ <<q, "stat">> \notin faults
                                             /\ (q # f => <<q, "list">> \notin faults)
                                             /\ (q = f => <<q, "open">> \notin faults /\ <<q, "create">> \notin faults /\ <<q, "copy">> \notin faults)

\* The loop over the sources has dealt with source n.
Processed(n) == (pc = "sources" /\ n < i) \/ loopEndErrs # "unset"

\* The archive holds all of file f as an entry of source n.
Written(n, f) == \E j \in 1..Len(archive) : archive[j].src = n /\ Resolve(archive[j].at.from) = f /\ archive[j].at.whole

\* The path has a failure of its own: a fault on it, a missing file, or a
\* malformed pattern met when its name is tested.
OwnFailure(n, e) == \/ <<Resolve(e.path), e.op>> \in faults
                    \/ e.op = "stat" /\ Resolve(e.path) \notin Dirs \cup Files
                    \/ e.op = "glob" /\ \E j \in 1..Len(config.Sources[n].Blacklist) : Match(config.Sources[n].Blacklist[j], Base(e.path)) = "bad"

\* C7: errors do not cut the walk short.  An error returned belongs to a
\* path with a failure of its own, once; and every regular file whose own
\* operations succeed, that no pattern excludes, and whose directories up to
\* the source are read, is written to the archive, whatever failed in the
\* same directory, in other directories or in earlier sources.
C7_ErrorsDoNotStopWalk == \A n \in 1..Len(config.Sources) : Processed(n) =>
                             /\ \A f \in Files : ((Beneath(Root(n), f) /\ Sound(n, f)) => Written(n, f))
                             /\ \A j \in 1..Len(returned) : (returned[j].src = n => OwnFailure(n, returned[j].at))
                             /\ \A j \in 1..Len(returned) : \A h \in 1..Len(returned) : ((returned[j] = returned[h]) => j = h)

\* A directory of the first source could not be listed, and a file next to
\* it and a file of the second source were archived all the same.
C7_Witness == /\ loopEndErrs = "some"
              /\ Len(config.Sources) = 2
              /\ \E j \in 1..Len(returned) : returned[j].src = 1 /\ returned[j].at.op = "list"
              /\ \E j \in 1..Len(archive) : archive[j].src = 1 /\ archive[j].at.whole
              /\ \E j \in 1..Len(archive) : archive[j].src = 2 /\ archive[j].at.whole

\* Some pattern of the blacklist matches the name.
Excluded(blacklist, name) == \E j \in 1..Len(blacklist) : Match(blacklist[j], name) = "match"

\* A malformed pattern stands before every pattern that matches the name.
BadFirst(blacklist, name) == \E h \in 1..Len(blacklist) : Match(blacklist[h], name) = "bad" /\ \A g \in 1..(h - 1) : Match(blacklist[g], name) = "nomatch"

NoEntryBelow(n, q) == \A j \in 1..Len(archive) : archive[j].src = n => ~Beneath(q, Resolve(archive[j].at.from))

NoOpBelow(n, q) == \A j \in 1..Len(ops) : ops[j].src = n => ~Beneath(q, Resolve(ops[j].at[1]))

NoErrBelow(n, q) == \A j \in 1..Len(returned) : returned[j].src = n => ~Beneath(q, Resolve(returned[j].at.path))

\* C8 (as claimed): for a path of a source whose base name matches a glob
\* of the source's blacklist, addSrc adds no entry for it or below it, does
\* no stat, list or open on it, and returns no error for it.
C8_Claim == \A n \in 1..Len(config.Sources) : Processed(n) => \A q \in Dirs \cup Files : (Beneath(Root(n), q) /\ Excluded(config.Sources[n].Blacklist, Base(q))) => NoEntryBelow(n, q) /\ NoOpBelow(n, q) /\ NoErrBelow(n, q)

\* C8 (amended): for such a path addSrc adds no entry for it or below it and
\* does no stat, list or open on it; it returns no error for it unless a
\* malformed pattern stands in the blacklist before the first pattern that
\* matches, and then the one error it returns is that pattern's.  No entry
\* of the archive has a path element that matches its source's blacklist.
C8_ExcludedSkipped == \A n \in 1..Len(config.Sources) : Processed(n) =>
                         /\ \A q \in Dirs \cup Files : (Beneath(Root(n), q) /\ Excluded(config.Sources[n].Blacklist, Base(q))) =>
                              /\ NoEntryBelow(n, q)
                              /\ NoOpBelow(n, q)
                              /\ IF BadFirst(config.Sources[n].Blacklist, Base(q)) THEN \A j \in 1..Len(returned) : (returned[j].src = n /\ Beneath(q, Resolve(returned[j].at.path))) => (Resolve(returned[j].at.path) = q /\ returned[j].at.op = "glob") ELSE NoErrBelow(n, q)
                         /\ \A j \in 1..Len(archive) : archive[j].src = n => \A q \in Chain(Root(n), Resolve(archive[j].at.from)) : ~Excluded(config.Sources[n].Blacklist, Base(q))

\* A source whose blacklist matches a file and a directory of it was walked
\* without error, and files of it were archived.
C8_Witness == \E n \in 1..Len(config.Sources) : /\ Processed(n)
                                                 /\ config.Sources[n].Blacklist = <<<<"s", "u", "b">>, <<"*", ".", "b", "a", "d">>>>
                                                 /\ \E q \in Files : Beneath(Root(n), q) /\ Excluded(config.Sources[n].Blacklist, Base(q))
                                                 /\ \E j \in 1..Len(archive) : archive[j].src = n
                                                 /\ returned = <<>>

\* The elements of a relative path, each after a slash.
RECURSIVE Slashed(_)
Slashed(p) == IF p = <<>> THEN <<>> ELSE <<"/">> \o Head(p) \o Slashed(Tail(p))

\* source-<i>:-<b>/<r> for file f of source n.
InternalPath(n, f) == <<"s", "o", "u", "r", "c", "e", "-">> \o Itoa(n) \o <<":", "-">> \o Base(Root(n)) \o Slashed(SubSeq(f, Len(Root(n)) + 1, Len(f)))

\* The regular files of the sources that no pattern excludes.
Kept == {x \in (1..Len(config.Sources)) \X Files : Beneath(Root(x[1]), x[2]) /\ \A q \in Chain(Root(x[1]), x[2]) : ~Excluded(config.Sources[x[1]].Blacklist, Base(q))}

\* C9: in a run with no archiving error the entries of the archive are the
\* non-excluded regular files of the sources, each once and whole, file r of
\* source i (base name b) under the path source-<i>:-<b>/<r>, and no two
\* entries have the same path.
C9_EntriesAreTheFiles == (loopEndErrs = "none") =>
                            /\ Len(archive) = Cardinality(Kept)
                            /\ \A x \in Kept : \E j \in 1..Len(archive) : archive[j].src = x[1] /\ Resolve(archive[j].at.from) = x[2] /\ archive[j].at.whole /\ archive[j].at.name = InternalPath(x[1], x[2])
                            /\ \A j \in 1..Len(archive) : \A h \in 1..Len(archive) : ((archive[j].at.name = archive[h].at.name) => j = h)

\* Two sources of the same base name, one of them listed at two places or
\* both holding a file of the same name, were archived without error.
C9_Witness == loopEndErrs = "none" /\ Len(config.Sources) = 2 /\ Base(Root(1)) = Base(Root(2)) /\ Root(1) # Root(2) /\ (\E j \in 1..Len(archive) : archive[j].src = 1) /\ (\E j \in 1..Len(archive) : archive[j].src = 2)

\* The key of a provider.
KeyOf(provider) == IF provider = "SendGrid" THEN config.SendGridAPIKey ELSE config.SalesScribeAPIKey

\* C10 (as claimed): when report runs with errors on record and both
\* providers enabled, the send routine of each is called: a missing key is
\* logged and skips that provider's request alone, and a transport error or
\* a status that is not 2xx is logged and neither prevents the call of the
\* other provider nor ends report by a panic.
C10_Claim == (HasHandler /\ pc = "exit" /\ Len(errs) > 0 /\ config.UseSendGrid /\ config.UseSalesScribe) =>
                /\ \A p \in {"SendGrid", "SalesScribe"} : Cardinality({j \in 1..Len(attempts) : attempts[j].provider = p}) = 1
                /\ \A j \in 1..Len(attempts) : ((attempts[j].outcome = "no key") <=> (KeyOf(attempts[j].provider) = ""))
                /\ \A j \in 1..Len(attempts) : (attempts[j].outcome # "2xx" => ErrOf(<<>>, attempts[j].provider) \in Range(log))
                /\ panicking # "report"

\* The name starts with ten digits, "_UTC-", a year of one of the given
\* lengths, "-", a month of one or two digits, "-", a day of one or two digits.
Eligible(name, yearLens) == \E y \in yearLens, m \in 1..2, d \in 1..2 : /\ Len(name) >= 17 + y + m + d
                                                                        /\ \A j \in 1..10 : name[j] \in DigitSet
                                                                        /\ SubSeq(name, 11, 15) = <<"_", "U", "T", "C", "-">>
                                                                        /\ \A j \in 16..(15 + y) : name[j] \in DigitSet
                                                                        /\ name[16 + y] = "-"
                                                                        /\ \A j \in (17 + y)..(16 + y + m) : name[j] \in DigitSet
                                                                        /\ name[17 + y + m] = "-"
                                                                        /\ \A j \in (18 + y + m)..(17 + y + m + d) : name[j] \in DigitSet

\* The names of a set without its Keep greatest.
AllButNewest(M) == IF Cardinality(M) > Keep THEN Smallest(M, Cardinality(M) - Keep) ELSE {}

\* C11 (as claimed): retention counts a name of the directory exactly when
\* its year field has one to four digits, so the names it picks for deletion
\* are all but the three greatest of those names, a name with a year of one,
\* two or three digits among them.
C11_Claim == (dirAtList # {}) => Range(oldBackupNames) = AllButNewest({n \in dirAtList : Eligible(n, 1..4)})

\* C11 (amended): retention counts a name exactly when its year field has
\* four digits: the names it picks for deletion are all but the three
\* greatest of the names with a four-digit year, and a name whose year has
\* one, two or three digits is neither counted nor deleted.  (Stated of the
\* end of a run, when the list and the removals are complete.)
C11_FourDigitYear == (pc = "exit" /\ dirAtList # {}) =>
                        /\ Range(oldBackupNames) = AllButNewest({n \in dirAtList : Eligible(n, {4})})
                        /\ \A j \in 1..Len(removed) : Eligible(removed[j].name, {4})
                        /\ \A n \in dirAtList : (Eligible(n, 1..3) /\ ~Eligible(n, {4})) => n \in backups

\* Retention listed three names with a four-digit year and two with a
\* shorter year, and deleted nothing.
C11_Witness == /\ pc = "exit"
               /\ loopEndErrs = "none"
               /\ Cardinality({n \in dirAtList : Eligible(n, {4})}) = 3
               /\ Cardinality({n \in dirAtList : Eligible(n, 1..4)}) = 5
               /\ removed = <<>>
               /\ <<"1", "0", "0", "0", "0", "0", "0", "0", "0", "0", "_", "U", "T", "C", "-", "9", "9", "9", "-", "1", "-", "1", ".", "z", "i", "p">> \in backups

\* C12 (as claimed): whatever the backups directory held before, names
\* dated after the current time among them, the archive a run creates is not
\* among the names the same run removes.
C12_Claim == \A j \in 1..Len(removed) : removed[j].name # dstFileName

\* The archive of the last run so far, the current one included, that ended
\* without a panic and with nothing in the Error Accumulator.
NewestErrorFree == IF RunErrorFree THEN dstFileName ELSE lastErrorFree

\* The archive of the last run so far, the current one included, that
\* archived its sources with no error on record.
NewestArchived == IF RunArchived THEN dstFileName ELSE lastArchived

\* C13 (as claimed): over a sequence of runs at increasing times, error-free
\* runs, runs with archiving errors, startup aborts and runs with failing
\* removals among them, the archive of the most recent error-free run is in
\* the backups directory after each run.
C13_Claim == (focus = "sequence" /\ pc = "exit" /\ NewestErrorFree # <<>>) => NewestErrorFree \in backups

\* C13 (amended): over such a sequence the archive of the most recent run
\* that archived its sources with no error on record, whether or not a
\* removal then failed and entered the Error Accumulator, is in the backups
\* directory after each run; it is there during a later run too, until that
\* run has itself archived with no error on record, and from then on that
\* run's own archive is there.
C13_NewestArchiveKept == (focus = "sequence") =>
                            /\ (pc = "exit" /\ NewestArchived # <<>>) => NewestArchived \in backups
                            /\ (loopEndErrs # "none" /\ lastArchived # <<>>) => lastArchived \in backups
                            /\ (loopEndErrs = "none") => dstFileName \in backups

\* After runs that failed and left their archives, a run that archived
\* without error deleted the archive of the last such run before it.
C13_Witness == /\ focus = "sequence"
               /\ pc = "exit"
               /\ loopEndErrs = "none"
               /\ lastArchived # <<>>
               /\ lastErrorFree = lastArchived
               /\ \E j \in 1..Len(removed) : removed[j].name = lastArchived /\ removed[j].ok
               /\ Cardinality({n \in backups : MatchString(n)}) >= 3

=============================================================================
